---------------------------- MODULE Spec2Model ----------------------------
(***************************************************************************)
(* A model of list_chunk_idfolder.py: the resolver (map_ids_to_folders),   *)
(* the chunker (chunkify), the manifest writer and the copy/move           *)
(* transactor, driven by main().  The filesystem is a finite tree: a       *)
(* function from paths (sequences of names) to nodes.                      *)
(***************************************************************************)
EXTENDS Integers, Sequences, FiniteSets, TLC

VARIABLES args, fs0, pc, err, fs, mapping, missing, existing_ids_in_order,
          chunks, save_idx, idx, pending, log, snap, collided, applied,
          failedAt, items, size, result

vars == <<args, fs0, pc, err, fs, mapping, missing, existing_ids_in_order,
          chunks, save_idx, idx, pending, log, snap, collided, applied,
          failedAt, items, size, result>>

mainVars == <<args, fs0, pc, err, fs, mapping, missing, existing_ids_in_order,
              chunks, save_idx, idx, pending, log, snap, collided, applied,
              failedAt>>

chunkVars == <<items, size, result>>

-----------------------------------------------------------------------------
(* Bounds of the model. *)

\* longest identifier list read from the IDs file
MaxIds == 3

\* largest --chunk-size tried
MaxChunkSize == 2

\* longest list handed to chunkify on its own
MaxItems == 5

\* the identifiers an IDs file may hold
IdSet == {"A", "B"}

\* --source, and the values tried for --process-dest (the second one makes
\* <dest>/chunk_1 the source folder itself)
SourceRoot == <<"data", "chunk_1">>

DestRoots == {<<"out">>, <<"data">>}

-----------------------------------------------------------------------------
(* Sequences. *)

Range(s) == {s[i] : i \in 1..Len(s)}

SeqsUpTo(S, n) == UNION {[1..m -> S] : m \in 0..n}

RECURSIVE Flatten(_)
Flatten(ss) == IF ss = <<>> THEN <<>> ELSE Head(ss) \o Flatten(Tail(ss))

Count(x, s) == Cardinality({i \in 1..Len(s) : s[i] = x})

-----------------------------------------------------------------------------
(* The filesystem: pathlib / shutil primitives on a tree of nodes. *)

DirNode == [kind |-> "dir", data |-> <<>>]

FileNode(d) == [kind |-> "file", data |-> d]

IsPrefix(p, q) == Len(p) <= Len(q) /\ SubSeq(q, 1, Len(p)) = p

Prefixes(p) == {SubSeq(p, 1, n) : n \in 0..Len(p)}

\* Path.exists
exists(f, p) == p \in DOMAIN f

\* Path.is_dir
is_dir(f, p) == p \in DOMAIN f /\ f[p].kind = "dir"

\* what a path holds: the nodes at and below p, keyed by their path relative
\* to p (the empty function when p does not exist)
Tree(f, p) ==
    LET below == {q \in DOMAIN f : IsPrefix(p, q)}
    IN  [s \in {SubSeq(q, Len(p) + 1, Len(q)) : q \in below} |-> f[p \o s]]

\* a tree put at dst, over whatever f holds there
Graft(f, t, dst) ==
    LET new == {dst \o s : s \in DOMAIN t}
    IN  [q \in DOMAIN f \cup new |->
            IF q \in new THEN t[SubSeq(q, Len(dst) + 1, Len(q))] ELSE f[q]]

\* shutil.rmtree
rmtree(f, p) == [q \in {r \in DOMAIN f : ~IsPrefix(p, r)} |-> f[q]]

\* Path.unlink
unlink(f, p) == [q \in DOMAIN f \ {p} |-> f[q]]

\* Path.mkdir(parents=True, exist_ok=True): fails when the path or one of its
\* parents exists and is not a directory
mkdir(f, p) ==
    IF \E q \in Prefixes(p) : exists(f, q) /\ ~is_dir(f, q)
    THEN [ok |-> FALSE, fs |-> f]
    ELSE [ok |-> TRUE,
          fs |-> [q \in DOMAIN f \cup Prefixes(p) |->
                     IF q \in DOMAIN f THEN f[q] ELSE DirNode]]

\* shutil.copytree(src, dst): src must be a directory and dst must not exist;
\* a dst inside src never ends normally
copytree(f, src, dst) ==
    IF ~is_dir(f, src) \/ exists(f, dst) \/ IsPrefix(src, dst)
    THEN [ok |-> FALSE, fs |-> f]
    ELSE LET made == mkdir(f, SubSeq(dst, 1, Len(dst) - 1))
         IN  IF ~made.ok THEN [ok |-> FALSE, fs |-> f]
             ELSE [ok |-> TRUE, fs |-> Graft(made.fs, Tree(f, src), dst)]

\* a move that copies and forgets to delete the source
move_keeps_source(f, src, dst) == copytree(f, src, dst)

\* shutil.move(src, dst): into dst when dst is a directory, else a rename
\* (a copy and a removal of the source when the rename is refused); only a
\* file may take the place of an existing file
move(f, src, dst) ==
    LET real_dst == IF is_dir(f, dst) THEN dst \o <<src[Len(src)]>> ELSE dst
        gone == rmtree(f, src)
        made == mkdir(gone, SubSeq(real_dst, 1, Len(real_dst) - 1))
    IN  IF \/ ~exists(f, src)
           \/ exists(f, real_dst) /\ (is_dir(f, src) \/ is_dir(f, real_dst))
           \/ IsPrefix(src, real_dst)
           \/ ~made.ok
        THEN [ok |-> FALSE, fs |-> f]
        ELSE [ok |-> TRUE, fs |-> Graft(made.fs, Tree(f, src), real_dst)]

-----------------------------------------------------------------------------
(* Chunking helpers. *)

\* range(0, n, step) as 1-based start positions
Starts(n, step) == {i \in 1..n : (i - 1) % step = 0}

Min(a, b) == IF a < b THEN a ELSE b

\* chunkify with range(0, len(items) - chunk_size + 1, chunk_size): the
\* short last chunk is lost
chunkify_full_only(xs, chunk_size) ==
    IF chunk_size <= 0
    THEN [ok |-> FALSE, chunks |-> <<>>]
    ELSE [ok |-> TRUE,
          chunks |-> [k \in 1..(Len(xs) \div chunk_size) |->
                        SubSeq(xs, (k - 1) * chunk_size + 1, k * chunk_size)]]

\* chunkify: ok = FALSE stands for the ValueError (InvalidChunkSize)
chunkify(xs, chunk_size) ==
    IF chunk_size <= 0
    THEN [ok |-> FALSE, chunks |-> <<>>]
    ELSE LET n == Cardinality(Starts(Len(xs), chunk_size))
         IN  [ok |-> TRUE,
              chunks |-> [k \in 1..n |->
                            SubSeq(xs, (k - 1) * chunk_size + 1,
                                       Min(Len(xs), k * chunk_size))]]

\* the test without its "> 0" half: any number but 0 asks for chunks
ChunkingRequestedNonZero(chunk_size) == chunk_size # 0

\* the test of main() that decides whether chunkify is called at all
ChunkingRequested(chunk_size) == chunk_size # 0 /\ chunk_size > 0

\* f"{args.chunk_prefix}{idx}", with the default prefix
chunk_prefix == "chunk_"

ChunkName(i) == chunk_prefix \o ToString(i)

\* --chunks-dir and --chunk-format, at their defaults
chunks_dir == <<"chunks">>

chunk_format == "json"

\* the keys of a dict filled from a sequence: each key once, in the order of
\* its first insertion
RECURSIVE DictKeys(_)
DictKeys(s) ==
    IF s = <<>> THEN <<>>
    ELSE LET rest == DictKeys(SubSeq(s, 1, Len(s) - 1))
         IN  IF s[Len(s)] \in Range(rest) THEN rest ELSE Append(rest, s[Len(s)])

-----------------------------------------------------------------------------
(* Mapping. *)

\* the loop of map_ids_to_folders: r is the pair (mapping, missing) so far
RECURSIVE MapLoop(_, _, _, _)
MapLoop(f, src, ids, r) ==
    IF ids = <<>> THEN r
    ELSE LET id_ == Head(ids)
             candidate == src \o <<id_>>
         IN  IF exists(f, candidate) /\ is_dir(f, candidate)
             THEN MapLoop(f, src, Tail(ids),
                          [r EXCEPT !.mapping =
                              [x \in DOMAIN r.mapping \cup {id_} |->
                                  IF x = id_ THEN candidate ELSE r.mapping[x]]])
             ELSE MapLoop(f, src, Tail(ids),
                          [r EXCEPT !.missing = Append(r.missing, id_)])

\* map_ids_to_folders: ok = FALSE stands for NotADirectoryError
map_ids_to_folders(f, source_folder, ids) ==
    IF ~exists(f, source_folder) \/ ~is_dir(f, source_folder)
    THEN [ok |-> FALSE, mapping |-> <<>>, missing |-> <<>>]
    ELSE LET r == MapLoop(f, source_folder, ids,
                          [mapping |-> <<>>, missing |-> <<>>])
         IN  [ok |-> TRUE, mapping |-> r.mapping, missing |-> r.missing]

\* the found identifiers taken from the mapping's keys: each once
ExistingFromKeys(ids, m) ==
    DictKeys(SelectSeq(ids, LAMBDA id_ : id_ \in DOMAIN m))

\* [id_ for id_ in ids if id_ in mapping]
ExistingInOrder(ids, m) == SelectSeq(ids, LAMBDA id_ : id_ \in DOMAIN m)

-----------------------------------------------------------------------------
(* The state before main() runs. *)

\* a folder named after an identifier holds one file, f, whose text names it
SourceTree(kind) ==
    LET dirs  == {SourceRoot \o <<i>> : i \in {j \in IdSet : kind[j] = "dir"}}
        files == {SourceRoot \o <<i>> : i \in {j \in IdSet : kind[j] = "file"}}
        inner == {d \o <<"f">> : d \in dirs}
    IN  [q \in Prefixes(SourceRoot) \cup dirs \cup files \cup inner |->
            IF q \in files \cup inner
            THEN FileNode(<<q[Len(SourceRoot) + 1]>>)
            ELSE DirNode]

\* what the destination holds before the run, at the places the run will
\* write to: nothing, a directory with a file of its own, or a plain file
Targets(dest) ==
    {dest \o <<ChunkName(k), i>> : k \in 1..MaxIds, i \in IdSet}

InitialFs(kind, dest, pre) ==
    LET base == SourceTree(kind)
        ts   == IF pre = "absent" THEN {}
                ELSE {t \in Targets(dest) :
                        ~IsPrefix(SourceRoot, t) /\ t \notin DOMAIN base}
        ups  == UNION {Prefixes(t) \ {t} : t \in ts}
        olds == IF pre = "dir" THEN {t \o <<"old">> : t \in ts} ELSE {}
    IN  [q \in DOMAIN base \cup ups \cup ts \cup olds |->
            IF q \in DOMAIN base THEN base[q]
            ELSE IF q \in olds THEN FileNode(<<"old">>)
            ELSE IF q \in ts /\ pre = "file" THEN FileNode(<<"old">>)
            ELSE DirNode]

ChunkIdle ==
    /\ items = <<>>
    /\ size = 0
    /\ result = [called |-> FALSE, ok |-> FALSE, chunks |-> <<>>]

MainFresh ==
    /\ pc = "start"
    /\ err = "none"
    /\ fs = fs0
    /\ mapping = <<>>
    /\ missing = <<>>
    /\ existing_ids_in_order = <<>>
    /\ chunks = <<>>
    /\ save_idx = 0
    /\ idx = 0
    /\ pending = <<>>
    /\ log = <<>>
    /\ snap = <<>>
    /\ collided = {}
    /\ applied = <<>>
    /\ failedAt = <<>>

Init ==
    /\ \E ids \in SeqsUpTo(IdSet, MaxIds),
          source \in {SourceRoot, <<"nowhere">>},
          chunk_size \in (-1)..MaxChunkSize,
          save_chunks \in BOOLEAN,
          print_only \in BOOLEAN,
          process_chunks \in {"none", "copy", "move"},
          process_dest \in {{}} \cup {{d} : d \in DestRoots} :
          /\ args = [ids |-> ids, source |-> source,
                     chunk_size |-> chunk_size, save_chunks |-> save_chunks,
                     print_only |-> print_only,
                     process_chunks |-> process_chunks,
                     process_dest |-> process_dest]
          /\ \E kind \in [IdSet -> {"dir", "file", "absent"}],
                pre \in {"absent", "dir", "file"} :
                /\ process_dest = {} => pre = "absent"
                /\ source # SourceRoot =>
                        pre = "absent" /\ \A i \in IdSet : kind[i] = "absent"
                /\ fs0 = InitialFs(kind,
                            IF process_dest = {} THEN <<>>
                            ELSE CHOOSE d \in process_dest : TRUE, pre)
    /\ MainFresh
    /\ ChunkIdle

-----------------------------------------------------------------------------
(* main(). *)

Event(op, chunk, id_) == [op |-> op, chunk |-> chunk, id |-> id_]

Fail(e) ==
    /\ pc' = "failed"
    /\ err' = e

\* lines 204-220: load the identifiers, map them, keep the found ones
MapIds ==
    /\ pc = "start"
    /\ IF args.ids = <<>>
       THEN /\ pc' = "done"
            /\ UNCHANGED <<err, mapping, missing, existing_ids_in_order>>
       ELSE LET r == map_ids_to_folders(fs, args.source, args.ids)
            IN  IF ~r.ok
                THEN /\ Fail("InvalidSourceRoot")
                     /\ UNCHANGED <<mapping, missing, existing_ids_in_order>>
                ELSE /\ mapping' = r.mapping
                     /\ missing' = r.missing
                     /\ existing_ids_in_order' =
                            ExistingInOrder(args.ids, r.mapping)
                     /\ pc' = "chunking"
                     /\ err' = err
    /\ UNCHANGED <<args, fs0, fs, chunks, save_idx, idx, pending, log, snap,
                   collided, applied, failedAt, chunkVars>>

\* lines 235-241 and 274-275: chunk, or say that chunking was not requested
Chunkify ==
    /\ pc = "chunking"
    /\ IF ChunkingRequested(args.chunk_size)
       THEN LET r == chunkify(existing_ids_in_order, args.chunk_size)
            IN  IF r.ok
                THEN /\ chunks' = r.chunks
                     /\ pc' = "save"
                     /\ err' = err
                ELSE /\ Fail("InvalidChunkSize")
                     /\ chunks' = chunks
       ELSE /\ pc' = "aggregate"
            /\ UNCHANGED <<err, chunks>>
    /\ UNCHANGED <<args, fs0, fs, mapping, missing, existing_ids_in_order,
                   save_idx, idx, pending, log, snap, collided, applied,
                   failedAt, chunkVars>>

\* lines 244-246: the manifests' directory
SaveBegin ==
    /\ pc = "save"
    /\ IF args.save_chunks /\ ~args.print_only
       THEN LET made == mkdir(fs, chunks_dir)
            IN  IF made.ok
                THEN /\ fs' = made.fs
                     /\ log' = Append(log, Event("mkdir", 0, ""))
                     /\ save_idx' = 1
                     /\ pc' = "saving"
                     /\ err' = err
                ELSE /\ Fail("IOWriteError")
                     /\ UNCHANGED <<fs, log, save_idx>>
       ELSE /\ pc' = "process_begin"
            /\ UNCHANGED <<err, fs, log, save_idx>>
    /\ UNCHANGED <<args, fs0, mapping, missing, existing_ids_in_order, chunks,
                   idx, pending, snap, collided, applied, failedAt, chunkVars>>

\* save_chunk_json: the file holds the chunk's identifiers in order, over
\* whatever was at out_path
save_chunk_json(f, chunk, out_path) ==
    LET made == mkdir(f, SubSeq(out_path, 1, Len(out_path) - 1))
    IN  [q \in DOMAIN made.fs \cup {out_path} |->
            IF q = out_path THEN FileNode(chunk) ELSE made.fs[q]]

\* lines 248-255: one manifest per chunk, in chunk order
SaveChunk ==
    /\ pc = "saving"
    /\ IF save_idx <= Len(chunks)
       THEN LET chunk_name == ChunkName(save_idx)
                out_path == chunks_dir \o <<chunk_name \o "." \o chunk_format>>
            IN  /\ fs' = save_chunk_json(fs, chunks[save_idx], out_path)
                /\ log' = Append(log, Event("manifest", save_idx, ""))
                /\ save_idx' = save_idx + 1
                /\ pc' = pc
       ELSE /\ pc' = "process_begin"
            /\ UNCHANGED <<fs, log, save_idx>>
    /\ UNCHANGED <<args, fs0, err, mapping, missing, existing_ids_in_order,
                   chunks, idx, pending, snap, collided, applied, failedAt,
                   chunkVars>>

\* lines 258-262: the destination root, required for copy and move
ProcessBegin ==
    /\ pc = "process_begin"
    /\ IF args.process_chunks \in {"copy", "move"} /\ ~args.print_only
       THEN IF args.process_dest = {}
            THEN /\ Fail("MissingDestination")
                 /\ UNCHANGED <<fs, log>>
            ELSE LET dest_root == CHOOSE d \in args.process_dest : TRUE
                     made == mkdir(fs, dest_root)
                 IN  IF made.ok
                     THEN /\ fs' = made.fs
                          /\ log' = Append(log, Event("mkdir", 0, ""))
                          /\ pc' = "process"
                          /\ err' = err
                     ELSE /\ Fail("TransactionError")
                          /\ UNCHANGED <<fs, log>>
       ELSE /\ pc' = "aggregate"
            /\ UNCHANGED <<err, fs, log>>
    /\ UNCHANGED <<args, fs0, mapping, missing, existing_ids_in_order, chunks,
                   save_idx, idx, pending, snap, collided, applied, failedAt,
                   chunkVars>>

DestRoot == CHOOSE d \in args.process_dest : TRUE

Target(k, id_) == DestRoot \o <<ChunkName(k), id_>>

\* a mapping that hands its keys back last-inserted first
ChunkMappingKeysReversed(ch) ==
    LET keys == DictKeys(ch)
    IN  [i \in 1..Len(keys) |-> keys[Len(keys) + 1 - i]]

\* a list of (identifier, path) pairs in place of the mapping: one entry for
\* each occurrence
ChunkMappingPairs(ch) == ch

\* chunk_mapping = {id_: mapping[id_] for id_ in ch}, as its keys in order
ChunkMappingKeys(ch) == DictKeys(ch)

\* lines 264-268 with 150-151 (168-169): the next chunk's mapping and its
\* directory under the destination root
NextChunk ==
    /\ pc = "process"
    /\ pending = <<>>
    /\ IF idx < Len(chunks)
       THEN LET keys == ChunkMappingKeys(chunks[idx + 1])
                made == mkdir(fs, DestRoot \o <<ChunkName(idx + 1)>>)
            IN  /\ idx' = idx + 1
                /\ snap' = [i \in Range(keys) |-> Tree(fs, mapping[i])]
                /\ collided' = {}
                /\ log' = Append(log, Event("mkdir", idx + 1, ""))
                /\ IF made.ok
                   THEN /\ fs' = made.fs
                        /\ pending' = keys
                        /\ UNCHANGED <<pc, err, failedAt>>
                   ELSE /\ Fail("TransactionError")
                        /\ failedAt' = <<[chunk |-> idx + 1, id |-> ""]>>
                        /\ UNCHANGED <<fs, pending>>
       ELSE /\ pc' = "aggregate"
            /\ UNCHANGED <<err, fs, idx, pending, log, snap, collided,
                           failedAt>>
    /\ UNCHANGED <<args, fs0, mapping, missing, existing_ids_in_order, chunks,
                   save_idx, applied, chunkVars>>

\* lines 155-160 (172-176): whatever is at the target goes first
RemoveTarget(f, target) ==
    IF exists(f, target)
    THEN IF is_dir(f, target) THEN rmtree(f, target) ELSE unlink(f, target)
    ELSE f

\* no removal, and a copy that accepts an existing directory
\* (dirs_exist_ok=True): the source's tree lands among what was there
TransferMerging(mode, f, src_path, target) ==
    IF mode = "copy"
    THEN IF ~is_dir(f, src_path) \/ (exists(f, target) /\ ~is_dir(f, target))
         THEN [ok |-> FALSE, fs |-> f]
         ELSE [ok |-> TRUE, fs |-> Graft(f, Tree(f, src_path), target)]
    ELSE move(f, src_path, target)

\* lines 155-161 (172-177) for one identifier: the removal, then the copy or
\* the move; on a failure fs is what the removal left
Transfer(mode, f, src_path, target) ==
    LET cleared == RemoveTarget(f, target)
    IN  IF mode = "copy" THEN copytree(cleared, src_path, target)
        ELSE move(cleared, src_path, target)

\* what a transfer that the system refuses half-way leaves behind: copytree
\* has made the target directory, a rename has done nothing
Interrupted(mode, f, target) ==
    IF mode = "copy" THEN mkdir(f, target).fs ELSE f

\* the events of one identifier: the removal, when there is something to
\* remove, then the copy or the move
IdEvents(mode, k, id_, had) ==
    (IF had THEN <<Event("remove", k, id_)>> ELSE <<>>) \o <<Event(mode, k, id_)>>

\* an exception handler that clears the destination root before leaving
RaiseWithCleanup(f) == rmtree(f, DestRoot)

\* what an exception does to the run: it leaves main(), nothing is undone
Raise(f) == f

\* lines 152-161 (170-177), one turn of the loop: the next identifier of the
\* chunk's mapping. fault is the system's part: it may refuse the removal or
\* the transfer (permissions, a full disk)
ProcessId ==
    /\ pc = "process"
    /\ pending # <<>>
    /\ \E fault \in {"none", "remove", "transfer"} :
        LET id_ == Head(pending)
            src_path == mapping[id_]
            target == Target(idx, id_)
            mode == args.process_chunks
            had == exists(fs, target)
            cleared == RemoveTarget(fs, target)
            r == Transfer(mode, fs, src_path, target)
        IN  /\ fault = "remove" => had
            /\ fault = "transfer" => r.ok
            /\ collided' = IF had THEN collided \cup {id_} ELSE collided
            /\ IF fault = "remove"
               THEN /\ fs' = Raise(fs)
                    /\ log' = Append(log, Event("remove", idx, id_))
                    /\ Fail("TransactionError")
                    /\ failedAt' = <<[chunk |-> idx, id |-> id_]>>
                    /\ UNCHANGED <<pending, applied>>
               ELSE IF fault = "transfer" \/ ~r.ok
               THEN /\ fs' = Raise(IF r.ok THEN Interrupted(mode, cleared, target)
                                   ELSE r.fs)
                    /\ log' = log \o IdEvents(mode, idx, id_, had)
                    /\ Fail("TransactionError")
                    /\ failedAt' = <<[chunk |-> idx, id |-> id_]>>
                    /\ UNCHANGED <<pending, applied>>
               ELSE /\ fs' = r.fs
                    /\ log' = log \o IdEvents(mode, idx, id_, had)
                    /\ applied' = Append(applied,
                                    [chunk |-> idx, id |-> id_,
                                     tree |-> Tree(r.fs, target)])
                    /\ pending' = Tail(pending)
                    /\ UNCHANGED <<pc, err, failedAt>>
    /\ UNCHANGED <<args, fs0, mapping, missing, existing_ids_in_order, chunks,
                   save_idx, idx, snap, chunkVars>>

\* json.dump(detailed_map, ...): one entry per found identifier
save_all_mapping(f, out_path) ==
    [q \in DOMAIN f \cup {out_path} |->
        IF q = out_path THEN FileNode(DictKeys(existing_ids_in_order))
        ELSE f[q]]

\* lines 278-285: the single file written when no chunk size was given
Aggregate ==
    /\ pc = "aggregate"
    /\ IF args.save_chunks /\ args.chunk_size = 0 /\ ~args.print_only
       THEN LET made == mkdir(fs, chunks_dir)
            IN  /\ fs' = save_all_mapping(made.fs,
                                          chunks_dir \o <<"all_mapping.json">>)
                /\ log' = log \o <<Event("mkdir", 0, ""),
                                   Event("manifest", 0, "")>>
       ELSE UNCHANGED <<fs, log>>
    /\ pc' = "done"
    /\ UNCHANGED <<args, fs0, err, mapping, missing, existing_ids_in_order,
                   chunks, save_idx, idx, pending, snap, collided, applied,
                   failedAt, chunkVars>>

Next ==
    \/ MapIds
    \/ Chunkify
    \/ SaveBegin
    \/ SaveChunk
    \/ ProcessBegin
    \/ NextChunk
    \/ ProcessId
    \/ Aggregate

Spec == Init /\ [][Next]_vars

-----------------------------------------------------------------------------
(* chunkify on its own: any list, any chunk size. *)

InitChunk ==
    /\ items \in SeqsUpTo(IdSet, MaxItems)
    /\ size \in (-1)..(MaxItems + 1)
    /\ result = [called |-> FALSE, ok |-> FALSE, chunks |-> <<>>]
    /\ args = [ids |-> <<>>, source |-> SourceRoot, chunk_size |-> 0,
               save_chunks |-> FALSE, print_only |-> FALSE,
               process_chunks |-> "none", process_dest |-> {}]
    /\ fs0 = SourceTree([i \in IdSet |-> "absent"])
    /\ MainFresh

CallChunkify ==
    /\ ~result.called
    /\ LET r == chunkify(items, size)
       IN  result' = [called |-> TRUE, ok |-> r.ok, chunks |-> r.chunks]
    /\ UNCHANGED <<items, size, mainVars>>

NextChunkify == CallChunkify

SpecChunk == InitChunk /\ [][NextChunkify]_vars

\* ceil(n / d) for d > 0
CeilDiv(n, d) == (n + d - 1) \div d

\* C1: for a list of n >= 0 items and a chunk size > 0, chunkify returns
\* ceil(n / chunk_size) chunks, each but the last of exactly chunk_size items,
\* the last of n mod chunk_size items (chunk_size when that is 0), none
\* empty, and the chunks concatenated in order are the list.
C1_ChunkifyPartitions ==
    (result.called /\ size > 0) =>
        LET n == Len(items)
            cs == result.chunks
        IN  /\ result.ok
            /\ Len(cs) = CeilDiv(n, size)
            /\ \A k \in 1..(Len(cs) - 1) : Len(cs[k]) = size
            /\ Len(cs) > 0 =>
                  Len(cs[Len(cs)]) = (IF n % size = 0 THEN size ELSE n % size)
            /\ \A k \in 1..Len(cs) : cs[k] # <<>>
            /\ Flatten(cs) = items

\* a list that does not divide evenly has been cut into several chunks
C1_Witness ==
    /\ result.called
    /\ size > 1
    /\ Len(items) > size
    /\ Len(items) % size # 0
    /\ Len(result.chunks) >= 2

-----------------------------------------------------------------------------
(* The run of main(). *)

\* map_ids_to_folders has returned
Mapped == pc # "start" /\ args.ids # <<>> /\ err # "InvalidSourceRoot"

\* whether the identifier at position i names a directory under the source
\* root, read from the filesystem as it was when the run began
Found(i) == is_dir(fs0, args.source \o <<args.ids[i]>>)

\* the input rebuilt from the two outputs: position i takes the next unused
\* element of the found list or of the missing list
Interleaved(r, m) ==
    [i \in 1..Len(args.ids) |->
        IF Found(i)
        THEN r[Cardinality({j \in 1..i : Found(j)})]
        ELSE m[Cardinality({j \in 1..i : ~Found(j)})]]

\* C2: the found identifiers (in input order, duplicates kept) and the missing
\* ones have together the length of the input, and put back at their original
\* positions they are the input.
C2_ResolutionPartitionsInput ==
    Mapped =>
        /\ Len(existing_ids_in_order) + Len(missing) = Len(args.ids)
        /\ Len(existing_ids_in_order) =
              Cardinality({i \in 1..Len(args.ids) : Found(i)})
        /\ Len(missing) = Cardinality({i \in 1..Len(args.ids) : ~Found(i)})
        /\ Interleaved(existing_ids_in_order, missing) = args.ids

\* a found identifier given twice next to a missing one
C2_Witness ==
    /\ Mapped
    /\ missing # <<>>
    /\ \E i \in IdSet : Count(i, existing_ids_in_order) >= 2

\* the call of copy_chunk_folders / move_chunk_folders for chunk idx has
\* returned
ChunkDone ==
    /\ pc \in {"process", "aggregate", "done"}
    /\ idx >= 1
    /\ pending = <<>>

MoveRun ==
    /\ args.process_chunks = "move"
    /\ ChunkingRequested(args.chunk_size)
    /\ ~args.print_only
    /\ args.process_dest # {}

\* C4: when move_chunk_folders has returned for a chunk, every identifier's
\* source path is gone and its target holds exactly the tree the source held
\* before the call; when a move run is over no found directory is left under
\* the source root.
C4_MoveRelocates ==
    /\ (args.process_chunks = "move" /\ ChunkDone) =>
          \A i \in Range(chunks[idx]) :
              /\ ~exists(fs, mapping[i])
              /\ is_dir(fs, Target(idx, i))
              /\ Tree(fs, Target(idx, i)) = snap[i]
    /\ (MoveRun /\ pc = "done" /\ args.ids # <<>>) =>
          \A i \in DOMAIN mapping : ~exists(fs, mapping[i])

\* a chunk moved, one of its targets having existed before
C4_Witness ==
    /\ args.process_chunks = "move"
    /\ ChunkDone
    /\ pc = "done"
    /\ collided # {}
    /\ Cardinality(Range(chunks[idx])) >= 2

\* C5: in copy mode every found source directory keeps, at every moment of
\* the run, the tree it had when the run began, wherever the destination is.
C5_CopyLeavesSource ==
    (args.process_chunks = "copy" /\ Mapped) =>
        \A i \in DOMAIN mapping : Tree(fs, mapping[i]) = Tree(fs0, mapping[i])

\* C6: with copy or move asked for and no destination root given, whatever
\* the chunk size (0 included) and the other options, the run never ends
\* normally: it fails with MissingDestination, and the filesystem is then as
\* it was when the run began.
C6_MissingDestinationIsFatal ==
    (/\ args.process_chunks \in {"copy", "move"}
     /\ args.process_dest = {}
     /\ args.chunk_size >= 0
     /\ Mapped) =>
        /\ pc # "done"
        /\ pc = "failed" => (err = "MissingDestination" /\ fs = fs0)
        /\ fs = fs0

\* the events of the transactor: everything but the manifests and the two
\* root directories
Transacts(e) == e.chunk >= 1 /\ e.op # "manifest"

\* the identifiers chunk k's copies or moves were issued for, in order
Issued(k) ==
    LET es == SelectSeq(log, LAMBDA e : e.chunk = k /\ e.op \in {"copy", "move"})
    IN  [i \in 1..Len(es) |-> es[i].id]

\* the entries of applied for identifier i in chunk k
AppliedFor(k, i) ==
    {n \in 1..Len(applied) : applied[n].chunk = k /\ applied[n].id = i}

\* C7: once the removal, copy or move of an identifier has failed the run is
\* over; no later identifier of the chunk and no later chunk has been
\* touched, and every identifier applied before, in this chunk or an earlier
\* one, is at its destination exactly as it was left.
C7_NoRollback ==
    failedAt # <<>> =>
        LET fa == failedAt[1]
        IN  /\ pc = "failed"
            /\ err = "TransactionError"
            /\ ~ENABLED Next
            /\ \A n \in 1..Len(log) :
                  Transacts(log[n]) => log[n].chunk <= fa.chunk
            /\ \A i \in Range(Tail(pending)) :
                  \A n \in 1..Len(log) :
                      ~(log[n].chunk = fa.chunk /\ log[n].id = i)
            /\ \A n \in 1..Len(applied) :
                  /\ Tree(fs, Target(applied[n].chunk, applied[n].id))
                        = applied[n].tree
                  /\ applied[n].tree # <<>>
            /\ \A k \in 1..(fa.chunk - 1) :
                  \A i \in Range(chunks[k]) : AppliedFor(k, i) # {}
            /\ \A i \in Range(chunks[fa.chunk]) \ Range(pending) :
                  AppliedFor(fa.chunk, i) # {}

\* a failure after something was applied, with a chunk still to come
C7_Witness ==
    /\ failedAt # <<>>
    /\ failedAt[1].id # ""
    /\ applied # <<>>
    /\ failedAt[1].chunk < Len(chunks)

\* C8 as stated: a negative chunk size never lets the run end normally; it
\* ends in InvalidChunkSize.
C8_NegativeChunkSizeIsFatal ==
    (args.chunk_size < 0 /\ Mapped) =>
        /\ pc # "done"
        /\ pc = "failed" => err = "InvalidChunkSize"

\* C8 amended: with a negative chunk size main() never calls chunkify, the
\* one place that raises InvalidChunkSize (and would, for this size): no
\* chunk is computed, nothing is written, and the run goes on to end
\* normally as when chunking is not requested.
C8_NegativeChunkSizeSkipsChunking ==
    (args.chunk_size < 0 /\ Mapped) =>
        /\ ~chunkify(existing_ids_in_order, args.chunk_size).ok
        /\ err = "none"
        /\ pc \in {"chunking", "aggregate", "done"}
        /\ chunks = <<>>
        /\ log = <<>>
        /\ fs = fs0

\* a run with a negative chunk size, manifests and a move asked for, over
\* found folders, that has ended normally
C8_Witness ==
    /\ args.chunk_size < 0
    /\ pc = "done"
    /\ existing_ids_in_order # <<>>
    /\ args.save_chunks
    /\ ~args.print_only
    /\ args.process_chunks = "move"
    /\ args.process_dest # {}

\* C9 as stated: every manifest write, removal, copy and move of chunk k
\* comes before every one of chunk k + 1.
C9_ChunkOrderAcrossAllMutations ==
    \A m, n \in 1..Len(log) :
        (/\ m < n
         /\ log[m].chunk >= 1 /\ log[m].op # "mkdir"
         /\ log[n].chunk >= 1 /\ log[n].op # "mkdir") =>
            log[m].chunk <= log[n].chunk

\* C9 amended: the manifests are written first, in chunk order; then the
\* transactor works in chunk order; within a chunk the identifiers are taken
\* one at a time in the order of their first occurrence in the chunk, a
\* removal being followed at once by the copy or move of the same identifier.
C9_PhasedChunkOrder ==
    /\ \A m, n \in 1..Len(log) :
          m < n =>
            /\ (log[m].op = "manifest" /\ log[n].op = "manifest"
                    /\ log[n].chunk >= 1) => log[m].chunk < log[n].chunk
            /\ (Transacts(log[m]) /\ Transacts(log[n])) =>
                    log[m].chunk <= log[n].chunk
            /\ Transacts(log[m]) => (log[n].op # "manifest" \/ log[n].chunk = 0)
    /\ \A k \in 1..Len(chunks) :
          LET done == Issued(k)
              keys == DictKeys(chunks[k])
          IN  /\ Len(done) <= Len(keys)
              /\ done = SubSeq(keys, 1, Len(done))
    /\ \A n \in 1..Len(log) :
          log[n].op = "remove" =>
              \/ n = Len(log) /\ failedAt # <<>>
              \/ /\ n < Len(log)
                 /\ log[n + 1].op = args.process_chunks
                 /\ log[n + 1].chunk = log[n].chunk
                 /\ log[n + 1].id = log[n].id

\* a finished run that wrote manifests and processed two chunks, one of them
\* with two identifiers, over existing targets
C9_Witness ==
    /\ pc = "done"
    /\ Len(chunks) >= 2
    /\ \E n \in 1..Len(log) : log[n].op = "manifest" /\ log[n].chunk = 2
    /\ \E n \in 1..Len(log) : log[n].op = "remove" /\ log[n].chunk = 2
    /\ \E k \in 1..Len(chunks) : Len(Issued(k)) = 2

\* chunk k has been processed to its end
Completed(k) == k < idx \/ (k = idx /\ ChunkDone)

\* C10 as stated: an identifier of an existing directory given k times is
\* k times in the chunks and is copied or moved k times.
C10_OneOperationPerOccurrence ==
    (pc = "done" /\ idx >= 1) =>
        \A i \in DOMAIN mapping :
            /\ Count(i, Flatten(chunks)) = Count(i, args.ids)
            /\ Cardinality({n \in 1..Len(applied) : applied[n].id = i})
                  = Count(i, args.ids)

\* C10 amended: the identifier is k times in the chunks, but the transactor
\* works on it once per chunk that holds it: occurrences in one chunk make
\* one removal-then-copy/move, occurrences in different chunks one each.
C10_OneOperationPerChunk ==
    (Mapped /\ pc # "chunking" /\ ChunkingRequested(args.chunk_size)) =>
        \A i \in DOMAIN mapping :
            /\ Count(i, Flatten(chunks)) = Count(i, args.ids)
            /\ \A k \in 1..Len(chunks) :
                  /\ Cardinality(AppliedFor(k, i)) <= 1
                  /\ Count(i, Issued(k)) <= 1
                  /\ Completed(k) =>
                        (AppliedFor(k, i) # {} <=> i \in Range(chunks[k]))

\* a finished copy run over an identifier given three times, twice in one
\* chunk and once in the next
C10_Witness ==
    /\ pc = "done"
    /\ args.process_chunks = "copy"
    /\ \E i \in DOMAIN mapping :
          /\ Count(i, args.ids) = 3
          /\ Len(chunks) = 2
          /\ Count(i, chunks[1]) = 2
          /\ AppliedFor(1, i) # {}
          /\ AppliedFor(2, i) # {}

=============================================================================
